---------------------------- MODULE Spec2Model ----------------------------
(***************************************************************************)
(* A model of src/main.py, the Streamlit dashboard over the MBE answer     *)
(* table.  One run of the script is the pipeline                           *)
(*   load_data -> sidebar platform filter -> sidebar model filter ->       *)
(*   tab1 .. tab6                                                          *)
(* and every widget interaction reruns the script from the top.            *)
(*                                                                         *)
(* Representation.                                                         *)
(*  - A DataFrame whose row order the code fixes (groupby, merge, pivot,   *)
(*    sort_values) is a sequence of records; the loaded table df is a set  *)
(*    of rows, because no output of the script depends on the order of     *)
(*    the rows of the CSV except the order of st.multiselect options.      *)
(*  - Model identifiers and question numbers are naturals, ordered as the  *)
(*    identifiers sort; platform and category labels are strings whose     *)
(*    Python order is given by PlatformRank and CategoryRank.              *)
(*  - A cell that pandas may hold as NaN is a sequence of length <= 1:     *)
(*    << >> is NaN and <<v>> is the value v.                               *)
(*  - A float percentage is held as the exact fraction <<num, den>> in     *)
(*    lowest terms it was computed from; what is rounded and formatted is  *)
(*    the binary64 float, computed bit by bit.  A percentage rounded to    *)
(*    one decimal is an integer number of tenths; a formatted percentage   *)
(*    is the sequence of its character codes, so that string comparison    *)
(*    is what Python's is.                                                 *)
(*  - sort_values does not say in which order it leaves rows of equal key, *)
(*    and numpy's answer depends on the build: an operator that sorts has  *)
(*    as its value the set of the tables the call can return, and the tab  *)
(*    that sorts shows one of them.                                        *)
(***************************************************************************)
EXTENDS Integers, Sequences, FiniteSets, TLC

VARIABLES
    df,                  \* the loaded table: a set of rows
    columns,             \* df.columns: the header names of the table
    pc,                  \* position of the script run
    err,                 \* the exception that stopped the run, or "none"
    selected_platforms,  \* st.sidebar.multiselect("Select AI Platforms")
    selected_models,     \* st.sidebar.multiselect("Select AI Models")
    platform_filtered_df,\* the rows left by the platform filter
    filtered_df,         \* the rows handed to the six tabs
    tab1, tab2, tab3, tab4, tab5, tab6   \* what each tab computed and showed

vars == <<df, columns, pc, err, selected_platforms, selected_models,
          platform_filtered_df, filtered_df, tab1, tab2, tab3, tab4, tab5, tab6>>

-----------------------------------------------------------------------------
(* Bounds of the model.                                                    *)

\* The largest number of rows of a loaded table.
MaxRows == 3

-----------------------------------------------------------------------------
(* Program constants.                                                      *)

Human == "Human"
CriminalAlias == "Criminal Law/Prosecution"
CriminalCanonical == "Criminal Law and Procedure"
Torts == "Torts"

\* merged_table.head(5) and merged_table.tail(5)
HeadRows == 5
TailRows == 5

PlatformColumn == "AI Platform"
CostColumn == "total_cost"
DurationColumn == "duration"

\* platform_colors.keys(), with the rank of each key in Python's string order
PlatformRank(p) ==
    CASE p = "Alibaba"  -> 1
      [] p = "ChatGPT"  -> 2
      [] p = "Claude"   -> 3
      [] p = "DeepSeek" -> 4
      [] p = "Gemini"   -> 5
      [] p = "Grok"     -> 6
      [] p = "Human"    -> 7
      [] p = "Llama"    -> 8

\* Python's string order of the category labels of the model:
\* "Criminal Law and Procedure" < "Criminal Law/Prosecution" < "Torts"
\* (' ' is 0x20, '/' is 0x2F).
CategoryRank(c) ==
    CASE c = CriminalCanonical -> 1
      [] c = CriminalAlias     -> 2
      [] c = Torts             -> 3

-----------------------------------------------------------------------------
(* NaN-able cells.                                                         *)

NaN == << >>
Some(v) == <<v>>
IsNaN(x) == x = << >>

-----------------------------------------------------------------------------
(* Sorting.                                                                *)

\* The sequence s itself, with every element computed once.
Computed(s) == SubSeq(s, 1, Len(s))

\* The order of a column of numbers, of float percentages and of texts:
\* lt[i][j] says whether the value of row i is less than that of row j.
NumberOrder(col) ==
    [i \in DOMAIN col |-> [j \in DOMAIN col |-> col[i] < col[j]]]

FractionOrder(col) ==
    [i \in DOMAIN col |->
        [j \in DOMAIN col |-> col[i][1] * col[j][2] < col[j][1] * col[i][2]]]

\* No cell of the column is NaN.
NoNa(col) == [i \in DOMAIN col |-> FALSE]

\* numpy's SMALL_QUICKSORT: its quicksort partitions a run of keys only
\* while pr - pl exceeds it, and sorts a shorter run by insertion.
SMALL_QUICKSORT == 16

Reverse(s) == [k \in 1..Len(s) |-> s[Len(s) + 1 - k]]

\* The argsort that leaves equal keys in the order they are in: what an
\* insertion sort gives, a position moving left only past greater keys.
\* less[x][y] says whether the key at x is less than the key at y.
StableArgsort(less, m) ==
    LET rank(i) == Cardinality({j \in 1..m :
                       \/ less[j][i]
                       \/ (~less[i][j] /\ j < i)})
    IN  [k \in 1..m |-> CHOOSE i \in 1..m : rank(i) = k - 1]

RECURSIVE KeyOrders(_, _)
\* The orders of the positions left in which no key precedes a smaller one:
\* the first is a position with no smaller key left, the rest an order of
\* the others.
KeyOrders(less, left) ==
    IF left = {} THEN {<< >>}
    ELSE UNION {{<<i>> \o rest : rest \in KeyOrders(less, left \ {i})} :
                   i \in {i \in left : \A j \in left : ~less[j][i]}}

\* ndarray.argsort(kind='quicksort') of m keys: the orders it can give.
\* The sort is not stable.  For a numeric key (int64, float64) numpy's
\* aquicksort first offers the whole array, whatever its length, to the
\* vectorized argsort of the build, which sorts a short array by a bitonic
\* network; only where the build or the CPU has none does the scalar
\* quicksort run.  Where equal keys end up depends on which of the two it
\* is: any order in which no key precedes a smaller one.  A key of Python
\* objects is sorted by the generic scalar quicksort, which sorts a run of
\* at most SMALL_QUICKSORT + 1 keys by insertion, equal keys staying in the
\* order they are in, and partitions a longer run, moving equal keys past
\* one another.
Argsort(less, m, numeric) ==
    IF numeric \/ m > SMALL_QUICKSORT + 1
    THEN KeyOrders(less, 1..m)
    ELSE {StableArgsort(less, m)}

\* DataFrame.sort_values / Series.sort_values on one column with the order
\* lt, na[i] saying whether its cell in row i is NaN, and numeric whether
\* the column holds numbers: pandas' nargsort with the default kind,
\* quicksort.  The rows whose key is NaN go last in either direction
\* (na_position='last'), in their input order.  Ascending argsorts the
\* other keys; descending reverses them, argsorts ascending and reverses
\* the result.  The value is the set of the frames the call can return.
SortValues(s, lt, na, ascending, numeric) ==
    LET idx         == [i \in 1..Len(s) |-> i]
        non_nan_idx == SelectSeq(idx, LAMBDA i : ~na[i])
        nan_idx     == SelectSeq(idx, LAMBDA i : na[i])
        m           == Len(non_nan_idx)
        items       == IF ascending THEN non_nan_idx ELSE Reverse(non_nan_idx)
        less        == Computed([x \in 1..m |->
                           Computed([y \in 1..m |-> lt[items[x]][items[y]]])])
        sorted(argsort) == [k \in 1..m |-> items[argsort[k]]]
        indexer(argsort) ==
            (IF ascending THEN sorted(argsort) ELSE Reverse(sorted(argsort)))
                \o nan_idx
    IN  {Computed([k \in 1..Len(s) |-> s[indexer(argsort)[k]]]) :
            argsort \in Argsort(less, m, numeric)}

Range(s) == {s[i] : i \in DOMAIN s}

RECURSIVE SumOver(_, _)
\* The sum of f[x] over the finite set S.
SumOver(S, f) ==
    IF S = {} THEN 0
    ELSE LET x == CHOOSE y \in S : TRUE IN f[x] + SumOver(S \ {x}, f)

-----------------------------------------------------------------------------
(* Percentages.                                                            *)

RECURSIVE GCD(_, _)
GCD(a, b) == IF b = 0 THEN a ELSE GCD(b, a % b)

\* The value of n / d * 100 as an exact fraction in lowest terms, which
\* stands for the float PercentFloat(n, d) wherever only its order and
\* equality count: the two roundings move a quotient by less than
\* 2^-50 of itself, and two such fractions that differ do so by more.
Percent(n, d) ==
    LET g == GCD(100 * n, d) IN <<(100 * n) \div g, d \div g>>

\* The number of significand bits of a binary64 float.
Precision == 53

\* A float >= 0 of the arithmetic below is [sig |-> b, exp |-> e]: b its
\* Precision significand bits, the most significant first, and its value
\* the number b spells times 2^e.  Zero has no bits.
Zero == [sig |-> << >>, exp |-> 0]

Zeros(n) == [i \in 1..n |-> 0]

RECURSIVE BitsOf(_)
\* The bits of the natural n, the most significant first.
BitsOf(n) == IF n = 0 THEN << >> ELSE Append(BitsOf(n \div 2), n % 2)

RECURSIVE NatOf(_)
\* The natural that the bits spell.
NatOf(bits) ==
    IF bits = << >> THEN 0
    ELSE 2 * NatOf(SubSeq(bits, 1, Len(bits) - 1)) + bits[Len(bits)]

RECURSIVE MulCarry(_, _, _)
\* The bits of bits * k + carry, exactly.
MulCarry(bits, k, carry) ==
    IF bits = << >> THEN BitsOf(carry)
    ELSE LET v    == bits[Len(bits)] * k + carry
             rest == SubSeq(bits, 1, Len(bits) - 1)
         IN  IF v % 2 = 0 THEN Append(MulCarry(rest, k, v \div 2), 0)
             ELSE Append(MulCarry(rest, k, v \div 2), 1)

RECURSIVE Strip(_)
\* The bits without their leading zeros.
Strip(bits) ==
    IF bits # << >> /\ Head(bits) = 0 THEN Strip(Tail(bits)) ELSE bits

RECURSIVE Increment(_)
\* The bits of bits + 1.
Increment(bits) ==
    IF bits = << >> THEN <<1>>
    ELSE IF bits[Len(bits)] = 0
    THEN Append(SubSeq(bits, 1, Len(bits) - 1), 1)
    ELSE Append(Increment(SubSeq(bits, 1, Len(bits) - 1)), 0)

\* The float nearest to bits * 2^exp, the IEEE 754 rounding of the result
\* of an operation: the bits beyond Precision are dropped, and the last
\* bit kept goes up when the dropped ones are more than half of it, or
\* exactly half of it and it is odd.
Round53(bits, exp) ==
    LET s == Strip(bits)
        n == Len(s)
    IN  IF n = 0 THEN Zero
        ELSE IF n <= Precision
        THEN [sig |-> s \o Zeros(Precision - n), exp |-> exp - (Precision - n)]
        ELSE LET keep == SubSeq(s, 1, Precision)
                 rest == SubSeq(s, Precision + 1, n)
                 up   == /\ rest[1] = 1
                         /\ \/ \E i \in 2..Len(rest) : rest[i] = 1
                            \/ keep[Precision] = 1
                 r    == IF up THEN Increment(keep) ELSE keep
             IN  [sig |-> SubSeq(r, 1, Precision),
                  exp |-> exp + (n - Precision)
                              + (IF Len(r) > Precision THEN 1 ELSE 0)]

RECURSIVE FracBits(_, _, _)
\* The next k bits of the quotient of a long division by d that has come
\* to the remainder r, followed by one bit that says whether the division
\* leaves a remainder after them.
FracBits(r, d, k) ==
    IF k = 0 THEN <<IF r = 0 THEN 0 ELSE 1>>
    ELSE IF 2 * r >= d THEN <<1>> \o FracBits(2 * r - d, d, k - 1)
    ELSE <<0>> \o FracBits(2 * r, d, k - 1)

RECURSIVE Scaled(_, _)
\* n doubled until it is at least d.
Scaled(n, d) == IF n >= d THEN n ELSE Scaled(2 * n, d)

RECURSIVE Log2(_)
\* The number of doublings that made 1 into the power of two n.
Log2(n) == IF n = 1 THEN 0 ELSE 1 + Log2(n \div 2)

\* The float n / d of two integer-valued floats n >= 0 and d > 0: the
\* quotient to Precision + 1 bits after its leading one and a bit for what
\* is left, rounded.
Divide(n, d) ==
    IF n = 0 THEN Zero
    ELSE LET num == Scaled(n, d)
         IN  Round53(BitsOf(num \div d) \o FracBits(num % d, d, Precision + 1),
                     0 - Log2(num \div n) - (Precision + 2))

\* The float x * k for an integer-valued float k > 0: the exact product,
\* rounded.
Times(x, k) == Round53(MulCarry(x.sig, k, 0), x.exp)

\* The integer nearest to bits * 2^exp, a value exactly half way between
\* two integers going to the even one.
RoundHalfEven(bits, exp) ==
    IF exp >= 0 THEN NatOf(bits \o Zeros(exp))
    ELSE LET all == (IF 0 - exp > Len(bits)
                     THEN Zeros(0 - exp - Len(bits)) ELSE << >>) \o bits
             cut == Len(all) + exp
             n   == NatOf(SubSeq(all, 1, cut))
             fp  == SubSeq(all, cut + 1, Len(all))
             up  == /\ fp[1] = 1
                    /\ \/ \E i \in 2..Len(fp) : fp[i] = 1
                       \/ n % 2 = 1
         IN  IF up THEN n + 1 ELSE n

\* numpy.rint(x), as an integer.
Rint(x) == RoundHalfEven(x.sig, x.exp)

\* The number of tenths that '{:.1f}'.format(x) shows: the exact value of
\* the float x, rounded to one decimal, half to even.
Tenths(x) == RoundHalfEven(MulCarry(x.sig, 10, 0), x.exp)

\* The float n / d * 100 of line 153 (and of lines 332, 466, 530 and 597):
\* the quotient is rounded, and then its product with 100.
PercentFloat(n, d) == Times(Divide(n, d), 100)

\* (n / d * 100).round(1): ndarray.round multiplies by 10, takes rint and
\* divides by 10.  The result is the float t / 10, given as the integer t.
RoundFloat1(n, d) == Rint(Times(PercentFloat(n, d), 10))

\* RoundFloat1 of the counts of a table of at most MaxRows rows, each
\* computed once: row d holds the values of n = 0 .. MaxRows.
SmallRound1 ==
    Computed([d \in 1..MaxRows |->
        Computed([k \in 1..(MaxRows + 1) |-> RoundFloat1(k - 1, d)])])

Round1(n, d) ==
    IF n <= MaxRows /\ d <= MaxRows THEN SmallRound1[d][n + 1]
    ELSE RoundFloat1(n, d)

RECURSIVE Digits(_)
\* The decimal digits of the natural n as character codes ('0' is 48).
Digits(n) == IF n < 10 THEN <<48 + n>> ELSE Digits(n \div 10) \o <<48 + (n % 10)>>

\* '{:.1f}%'.format(x) for a float x: digits, '.', one digit, '%'.  ('.'
\* is 46, '%' is 37.)
FormatFloat(x) ==
    LET t == Tenths(x) IN Digits(t \div 10) \o <<46, 48 + (t % 10), 37>>

\* '{:.1f}%'.format(n / d * 100), the text of the float of line 153.
FormatFloatPercent(n, d) == FormatFloat(PercentFloat(n, d))

\* FormatFloatPercent of the counts of a table of at most MaxRows rows,
\* each computed once.
SmallPercent ==
    Computed([d \in 1..MaxRows |->
        Computed([k \in 1..(MaxRows + 1) |-> FormatFloatPercent(k - 1, d)])])

FormatPercent(n, d) ==
    IF n <= MaxRows /\ d <= MaxRows THEN SmallPercent[d][n + 1]
    ELSE FormatFloatPercent(n, d)

\* '{:.1f}%'.format of the float t / 10 that round(1) left.
FormatFloatTenths(t) == FormatFloat(Divide(t, 10))

\* FormatFloatTenths of the rounded percentages up to 100.0, each computed
\* once.
SmallTenths == Computed([k \in 1..1001 |-> FormatFloatTenths(k - 1)])

FormatTenths(t) ==
    IF t <= 1000 THEN SmallTenths[t + 1] ELSE FormatFloatTenths(t)

\* '{:.1f}%'.format(float('nan')) is 'nan%'.
FormatNaN == <<110, 97, 110, 37>>

FormatPct(x) == IF IsNaN(x) THEN FormatNaN ELSE FormatTenths(x[1])

RECURSIVE StrLt(_, _)
\* Python's < on two strings given as sequences of character codes.
StrLt(a, b) ==
    IF b = << >> THEN FALSE
    ELSE IF a = << >> THEN TRUE
    ELSE IF Head(a) # Head(b) THEN Head(a) < Head(b)
    ELSE StrLt(Tail(a), Tail(b))

\* The order of a column of texts.
TextOrder(col) ==
    [i \in DOMAIN col |-> [j \in DOMAIN col |-> StrLt(col[i], col[j])]]


-----------------------------------------------------------------------------
(* Rows and frames.                                                        *)

\* One row of the table.  Platform is the value of the platform column,
\* whatever its header is.  Correct, total_cost and duration are NaN-able
\* cells: read_csv leaves an empty cell as NaN, and a Correct column of
\* True/False with an empty cell keeps its booleans (dtype object).
Row(q, m, p, c, ok, cost, dur) ==
    [Question |-> q, Model |-> m, Platform |-> p, LawCategory |-> c,
     Correct |-> ok, total_cost |-> cost, duration |-> dur]

\* df[df['Correct'] == True]: NaN == True is False.
CorrectOnly(rows) == {r \in rows : r.Correct = Some(TRUE)}

\* isinstance(val, bool)
IsBool(cell) == cell \in {Some(TRUE), Some(FALSE)}

Pairs(rows) == {<<r.Model, r.Platform>> : r \in rows}

\* The order of the group keys of groupby(['Model', 'AI Platform']).
PairLt(a, b) ==
    \/ a[1] < b[1]
    \/ a[1] = b[1] /\ PlatformRank(a[2]) < PlatformRank(b[2])

\* The group keys in the order groupby(sort=True) and pivot_table give.
SortedPairs(S) ==
    Computed([k \in 1..Cardinality(S) |->
        CHOOSE x \in S : Cardinality({y \in S : PairLt(y, x)}) = k - 1])

RowsOf(rows, m, p) == {r \in rows : r.Model = m /\ r.Platform = p}

\* rows.groupby(['Model', 'AI Platform']).size().reset_index(name=...):
\* one record per pair that has a row, in key order.
GroupSize(rows) ==
    LET keys == SortedPairs(Pairs(rows))
    IN  Computed([i \in DOMAIN keys |->
            [Model |-> keys[i][1], Platform |-> keys[i][2],
             Size |-> Cardinality(RowsOf(rows, keys[i][1], keys[i][2]))]])

SameKey(a, b) == a.Model = b.Model /\ a.Platform = b.Platform

HasKey(s, a) == \E j \in DOMAIN s : SameKey(s[j], a)

Lookup(s, a) == s[CHOOSE j \in DOMAIN s : SameKey(s[j], a)]

\* df[df['AI Platform'] != 'Human'] on a frame of records
NotHuman(r) == r.Platform # Human

DropHuman(s) == SelectSeq(s, NotHuman)

-----------------------------------------------------------------------------
(* Tab 1: percentage of correct answers (lines 148-231).                   *)

\* MergeTotalCorrect with the two counts under each other's name.
MergeSwapped(total_questions, correct_answers) ==
    LET both == SelectSeq(total_questions,
                          LAMBDA t : HasKey(correct_answers, t))
    IN  [i \in DOMAIN both |->
            [Model |-> both[i].Model, Platform |-> both[i].Platform,
             Total |-> Lookup(correct_answers, both[i]).Size,
             Correct |-> both[i].Size]]

\* pd.merge(total_questions, correct_answers, on=['Model', 'AI Platform']):
\* the default how='inner' keeps the keys present on both sides, in the
\* order of the left frame.
MergeTotalCorrect(total_questions, correct_answers) ==
    LET both == SelectSeq(total_questions,
                          LAMBDA t : HasKey(correct_answers, t))
    IN  [i \in DOMAIN both |->
            [Model |-> both[i].Model, Platform |-> both[i].Platform,
             Total |-> both[i].Size,
             Correct |-> Lookup(correct_answers, both[i]).Size]]

\* percentage_correct['Percentage'] = Correct / Total * 100
WithPercentage(s) ==
    [i \in DOMAIN s |->
        [Model |-> s[i].Model, Platform |-> s[i].Platform,
         Total |-> s[i].Total, Correct |-> s[i].Correct,
         Percentage |-> Percent(s[i].Correct, s[i].Total)]]

\* Lines 150-156.
PercentageCorrect(rows) ==
    DropHuman(WithPercentage(
        MergeTotalCorrect(GroupSize(rows), GroupSize(CorrectOnly(rows)))))

\* Lines 228-230: sort by Percentage descending, then format the float.
\* The value is the set of the tables the sort can leave.
DisplayDf1(percentage_correct) ==
    LET by == [i \in DOMAIN percentage_correct |->
                  percentage_correct[i].Percentage]
        formatted(sorted) ==
            [i \in DOMAIN sorted |->
                [Model |-> sorted[i].Model, Platform |-> sorted[i].Platform,
                 Total |-> sorted[i].Total, Correct |-> sorted[i].Correct,
                 Percentage |->
                     FormatPercent(sorted[i].Correct, sorted[i].Total)]]
    IN  {formatted(sorted) :
            sorted \in SortValues(percentage_correct, FractionOrder(by),
                                  NoNa(by), FALSE, TRUE)}

-----------------------------------------------------------------------------
(* Tab 2: number of correct answers (lines 232-336).                       *)

\* Lines 233-245: count the correct rows per pair, drop Human, sort by the
\* count descending.  The value is the set of the frames the sort can
\* leave.
CorrectCounts(rows) ==
    LET counts == GroupSize(CorrectOnly(rows))
        named  == [i \in DOMAIN counts |->
                      [Model |-> counts[i].Model,
                       Platform |-> counts[i].Platform,
                       Correct |-> counts[i].Size]]
        kept   == DropHuman(named)
        by     == [i \in DOMAIN kept |-> kept[i].Correct]
    IN  SortValues(kept, NumberOrder(by), NoNa(by), FALSE, TRUE)

\* Lines 328-333: left-merge the totals and derive the formatted
\* percentage, round(Correct / Total * 100, 1).  Every key of
\* correct_counts is a key of total_questions.
DisplayDf2(correct_counts, rows) ==
    LET total_questions == GroupSize(rows)
    IN  [i \in DOMAIN correct_counts |->
            LET t == Lookup(total_questions, correct_counts[i]).Size
            IN  [Model |-> correct_counts[i].Model,
                 Platform |-> correct_counts[i].Platform,
                 Correct |-> correct_counts[i].Correct,
                 TotalQuestions |-> t,
                 PercentageCorrect |->
                     FormatTenths(Round1(correct_counts[i].Correct, t))]]

-----------------------------------------------------------------------------
(* Tab 3: categories answered correctly (lines 337-440).                   *)

\* Normalize with the replace left out.
NormalizeNothing(c) == c

\* Series.replace('Criminal Law/Prosecution', 'Criminal Law and Procedure')
Normalize(c) == IF c = CriminalAlias THEN CriminalCanonical ELSE c

\* CorrectDf without the filter on Correct.
CorrectDfAllRows(rows) == rows

\* Line 339
CorrectDf(rows) == CorrectOnly(rows)

\* Line 342: the category of a correct row after the replace.
CorrectDfCategory(r) == Normalize(r.LawCategory)

TripleLt(a, b) ==
    \/ PairLt(<<a[1], a[2]>>, <<b[1], b[2]>>)
    \/ a[1] = b[1] /\ a[2] = b[2] /\ CategoryRank(a[3]) < CategoryRank(b[3])

SortedTriples(S) ==
    Computed([k \in 1..Cardinality(S) |->
        CHOOSE x \in S : Cardinality({y \in S : TripleLt(y, x)}) = k - 1])

\* Lines 339-345: the correct rows, their category normalized, counted per
\* (Model, AI Platform, Law Category), in key order.
CategoryCounts(rows) ==
    LET correct_df == CorrectDf(rows)
        keys == SortedTriples({<<r.Model, r.Platform, CorrectDfCategory(r)>> :
                                  r \in correct_df})
    IN  [i \in DOMAIN keys |->
            [Model |-> keys[i][1], Platform |-> keys[i][2],
             LawCategory |-> keys[i][3],
             Count |-> Cardinality({r \in correct_df :
                           /\ r.Model = keys[i][1]
                           /\ r.Platform = keys[i][2]
                           /\ CorrectDfCategory(r) = keys[i][3]})]]

RECURSIVE Unique(_)
\* Series.unique(): the distinct values in order of first appearance.
Unique(s) ==
    IF s = << >> THEN << >>
    ELSE LET front == Unique(SubSeq(s, 1, Len(s) - 1))
             last  == s[Len(s)]
         IN  IF last \in Range(front) THEN front ELSE Append(front, last)

\* Line 360
Categories(category_counts) ==
    Unique([i \in DOMAIN category_counts |-> category_counts[i].LawCategory])

\* st.selectbox(label, options): the user's choice among the options;
\* None when there is no option.
SelectboxChoices(options) ==
    IF options = << >> THEN {"None"} ELSE Range(options)

\* SortedModels with the sort left out: the models in key order.
SortedModelsKeyOrder(category_counts, selected_category) ==
    LET model_order == SelectSeq(category_counts,
                           LAMBDA r : r.LawCategory = selected_category)
    IN  {[i \in DOMAIN model_order |-> model_order[i].Model]}

\* Lines 364-366: the rows of the selected category, indexed by Model,
\* sorted by Count descending; the list of their index.  The value is the
\* set of the lists the sort can leave.
SortedModels(category_counts, selected_category) ==
    LET model_order == SelectSeq(category_counts,
                           LAMBDA r : r.LawCategory = selected_category)
        by     == [i \in DOMAIN model_order |-> model_order[i].Count]
    IN  {[i \in DOMAIN sorted |-> sorted[i].Model] :
            sorted \in SortValues(model_order, NumberOrder(by), NoNa(by),
                                  FALSE, TRUE)}

\* Lines 423-438: replace the alias again, pivot to one row per
\* (Model, AI Platform) and one column per category with the summed counts
\* (0 where there is none), add Total, the sum of the category columns, and
\* sort by Total descending.  The value is the set of the tables the sort
\* can leave.
PivotTable(category_counts) ==
    LET cc   == [i \in DOMAIN category_counts |->
                    [category_counts[i] EXCEPT
                        !.LawCategory = Normalize(@)]]
        cats == {cc[i].LawCategory : i \in DOMAIN cc}
        keys == SortedPairs({<<cc[i].Model, cc[i].Platform>> : i \in DOMAIN cc})
        cell(k, c) ==
            LET hits == {i \in DOMAIN cc : /\ cc[i].Model = k[1]
                                           /\ cc[i].Platform = k[2]
                                           /\ cc[i].LawCategory = c}
            IN  SumOver(hits, [i \in hits |-> cc[i].Count])
        wide == [i \in DOMAIN keys |->
                    LET counts == [c \in cats |-> cell(keys[i], c)]
                    IN  [Model |-> keys[i][1], Platform |-> keys[i][2],
                         Counts |-> counts,
                         Total |-> SumOver(cats, counts)]]
        by   == [i \in DOMAIN wide |-> wide[i].Total]
    IN  SortValues(wide, NumberOrder(by), NoNa(by), FALSE, TRUE)

-----------------------------------------------------------------------------
(* Tabs 4 and 5: cost and time per question (lines 441-571).               *)

\* The sum of the non-NaN cells of a column over a group (skipna); cells
\* maps each row of the group to its cell.
CellSum(cells) ==
    SumOver(DOMAIN cells,
            [r \in DOMAIN cells |-> IF IsNaN(cells[r]) THEN 0 ELSE cells[r][1]])

\* CellCount counting every row of the group.
CellCountRows(cells) == Cardinality(DOMAIN cells)

\* ('column', 'count'): the number of non-NaN cells of the group.
CellCount(cells) == Cardinality({r \in DOMAIN cells : ~IsNaN(cells[r])})

\* total / count as a fraction in lowest terms; 0.0 / 0 is NaN.
Ratio(total, count) ==
    IF count = 0 THEN NaN
    ELSE LET g == GCD(total, count) IN Some(<<total \div g, count \div g>>)

TotalCost(rows) == [r \in rows |-> r.total_cost]
Duration(rows) == [r \in rows |-> r.duration]

\* Lines 445-454: per pair the sum and the count of total_cost, Human
\* dropped, and Average Cost Per Question = total_sum / question_count.
CostSummary(rows) ==
    LET keys == SortedPairs(Pairs(rows))
        all  == [i \in DOMAIN keys |->
                    LET g == TotalCost(RowsOf(rows, keys[i][1], keys[i][2]))
                    IN  [Model |-> keys[i][1], Platform |-> keys[i][2],
                         total_sum |-> CellSum(g),
                         question_count |-> CellCount(g),
                         Average |-> Ratio(CellSum(g), CellCount(g))]]
    IN  DropHuman(all)

\* Lines 512-518: per pair the mean of duration (NaN skipped; NaN when the
\* group has no value) and the count, Human dropped.
TimeSummary(rows) ==
    LET keys == SortedPairs(Pairs(rows))
        all  == [i \in DOMAIN keys |->
                    LET g == Duration(RowsOf(rows, keys[i][1], keys[i][2]))
                    IN  [Model |-> keys[i][1], Platform |-> keys[i][2],
                         question_count |-> CellCount(g),
                         Average |-> Ratio(CellSum(g), CellCount(g))]]
    IN  DropHuman(all)

\* Lines 456-466 and 520-530: left-merge the correct counts and the totals
\* onto the summary, a missing correct count becoming 0, and derive
\* Percentage Correct = Correct Answers / Total Questions * 100.
MergedData(summary, rows) ==
    LET total_questions == GroupSize(rows)
        correct_counts  == GroupSize(CorrectOnly(rows))
    IN  [i \in DOMAIN summary |->
            LET c == IF HasKey(correct_counts, summary[i])
                     THEN Lookup(correct_counts, summary[i]).Size ELSE 0
                t == Lookup(total_questions, summary[i]).Size
            IN  [Model |-> summary[i].Model,
                 Platform |-> summary[i].Platform,
                 Average |-> summary[i].Average,
                 CorrectAnswers |-> c, TotalQuestions |-> t,
                 PercentageCorrect |-> Percent(c, t)]]

\* Lines 504 and 568: display_df, the columns Model, AI Platform, the
\* average (Average Cost Per Question or avg_duration) and Percentage
\* Correct of merged_data, in its row order.
EfficiencyDisplayDf(merged_data) ==
    [i \in DOMAIN merged_data |->
        [Model |-> merged_data[i].Model,
         Platform |-> merged_data[i].Platform,
         Average |-> merged_data[i].Average,
         PercentageCorrect |-> merged_data[i].PercentageCorrect]]

\* Lines 505 and 569: the table handed to st.dataframe, display_df sorted
\* by Percentage Correct descending.  The value is the set of the tables
\* the sort can leave.
EfficiencyTable(display_df) ==
    LET by == [i \in DOMAIN display_df |-> display_df[i].PercentageCorrect]
    IN  SortValues(display_df, FractionOrder(by), NoNa(by), FALSE, TRUE)

-----------------------------------------------------------------------------
(* Tab 6: individual questions (lines 572-632).                            *)

\* The aggfunc of question_pivot on the Correct cells x of one
\* (Question Number, Law Category, Model) group: 'Correct' if all are bool
\* and any is True, 'Incorrect' if all are bool, and otherwise the value of
\* print(...), which is None.
OutcomeLabel(x) ==
    IF \A v \in x : IsBool(v)
    THEN IF Some(TRUE) \in x THEN "Correct" ELSE "Incorrect"
    ELSE "None"

QuestionCategoryLt(a, b) ==
    \/ a[1] < b[1]
    \/ a[1] = b[1] /\ CategoryRank(a[2]) < CategoryRank(b[2])

SortedQuestionCategories(S) ==
    Computed([k \in 1..Cardinality(S) |->
        CHOOSE x \in S :
            Cardinality({y \in S : QuestionCategoryLt(y, x)}) = k - 1])

\* Lines 578-588: filtered_df.pivot_table(index=['Question Number',
\* 'Law Category'], columns='Model', values='Correct', aggfunc=...).
\* pivot_table aggregates each (index, column) group, drops the groups
\* whose aggregate is None (dropna=True), and unstacks Model: a row per
\* remaining (Question Number, Law Category) in key order, a column per
\* remaining Model, and NaN in a cell with no group.
QuestionPivot(rows) ==
    LET label(q, c, m) ==
            OutcomeLabel({r.Correct : r \in {r \in rows :
                /\ r.Question = q /\ r.LawCategory = c /\ r.Model = m}})
        agged == {k \in {<<r.Question, r.LawCategory, r.Model>> : r \in rows} :
                     label(k[1], k[2], k[3]) # "None"}
        index == SortedQuestionCategories({<<k[1], k[2]>> : k \in agged})
        cols  == {k[3] : k \in agged}
    IN  [i \in DOMAIN index |->
            [Question |-> index[i][1], LawCategory |-> index[i][2],
             Outcome |-> [m \in cols |->
                 IF <<index[i][1], index[i][2], m>> \in agged
                 THEN label(index[i][1], index[i][2], m) ELSE "NaN"]]]

\* Python's sum(x) over the Correct cells of a group: the number of True
\* cells, and nan as soon as one cell is NaN.
SumCorrect(rows) ==
    IF \E r \in rows : IsNaN(r.Correct) THEN NaN
    ELSE Some(Cardinality(CorrectOnly(rows)))

\* (total_correct / total_models * 100).round(1), the float t / 10 given
\* as the cell of t; NaN stays NaN.
RoundedPercentage(total_correct, total_models) ==
    IF IsNaN(total_correct) THEN NaN
    ELSE Some(Round1(total_correct[1], total_models))

\* TotalModels counting the rows of the group instead of its models.
TotalModelsRows(rows) == Cardinality(rows)

SortedNumbers(S) ==
    Computed([k \in 1..Cardinality(S) |->
        CHOOSE x \in S : Cardinality({y \in S : y < x}) = k - 1])

\* ('Model', 'nunique'): the number of distinct models of a group.
TotalModels(rows) == Cardinality({r.Model : r \in rows})

\* Lines 591-597: per Question Number, total_correct, the number of
\* distinct models, and the rounded percentage, in key order.
QuestionSummary(rows) ==
    LET qs == SortedNumbers({r.Question : r \in rows})
    IN  [i \in DOMAIN qs |->
            LET g  == {r \in rows : r.Question = qs[i]}
                tc == SumCorrect(g)
                tm == TotalModels(g)
            IN  [Question |-> qs[i], total_correct |-> tc,
                 total_models |-> tm,
                 PercentageCorrect |-> RoundedPercentage(tc, tm)]]

\* The order of a column of NaN-able numbers, on its cells that hold one.
CellOrder(col) ==
    [i \in DOMAIN col |->
        [j \in DOMAIN col |->
            ~IsNaN(col[i]) /\ ~IsNaN(col[j]) /\ col[i][1] < col[j][1]]]

IsNa(col) == [i \in DOMAIN col |-> IsNaN(col[i])]

\* Lines 600-611: inner-merge the pivot rows with the summary on Question
\* Number (left order kept) and sort by Percentage Correct descending.  The
\* value is the set of the tables the sort can leave.
MergedSorted(question_pivot, question_summary) ==
    LET summary(q) == question_summary[
            CHOOSE j \in DOMAIN question_summary :
                question_summary[j].Question = q]
        merged == [i \in DOMAIN question_pivot |->
                      [Question |-> question_pivot[i].Question,
                       LawCategory |-> question_pivot[i].LawCategory,
                       Outcome |-> question_pivot[i].Outcome,
                       PercentageCorrect |->
                           summary(question_pivot[i].Question)
                               .PercentageCorrect]]
        by == [i \in DOMAIN merged |-> merged[i].PercentageCorrect]
    IN  SortValues(merged, CellOrder(by), IsNa(by), FALSE, TRUE)

\* Line 614: the percentage column becomes text.
FormatColumn(s) ==
    [i \in DOMAIN s |->
        [s[i] EXCEPT !.PercentageCorrect = FormatPct(@)]]

\* Lines 600-614: the tables that the sort and the formatting can leave.
MergedTable(rows) ==
    {FormatColumn(sorted) :
        sorted \in MergedSorted(QuestionPivot(rows), QuestionSummary(rows))}

Min(a, b) == IF a < b THEN a ELSE b

\* DataFrame.head(n) and DataFrame.tail(n)
HeadOf(s, n) == SubSeq(s, 1, Min(n, Len(s)))
TailOf(s, n) == SubSeq(s, Len(s) - Min(n, Len(s)) + 1, Len(s))

\* The three columns shown of the easiest and hardest questions.
Shown(s) ==
    [i \in DOMAIN s |->
        [Question |-> s[i].Question, LawCategory |-> s[i].LawCategory,
         PercentageCorrect |-> s[i].PercentageCorrect]]

\* Line 624
Easiest(merged_table) == Shown(HeadOf(merged_table, HeadRows))

\* Line 629: the last rows, sorted ascending by the Percentage Correct
\* column, which line 614 made text, a column of Python objects.  The value
\* is the set of the tables the sort can leave.
Hardest(merged_table) ==
    LET last == TailOf(merged_table, TailRows)
        by   == [i \in DOMAIN last |-> last[i].PercentageCorrect]
    IN  {Shown(sorted) :
            sorted \in SortValues(last, TextOrder(by), NoNa(by), TRUE, FALSE)}

-----------------------------------------------------------------------------
(* The script run.                                                         *)

Pending == [state |-> "pending"]

PlatformsOf(rows) == {r.Platform : r \in rows}
ModelsOf(rows) == {r.Model : r \in rows}

\* The state in which a run of the script starts on the table t with the
\* header names cols: nothing computed yet, and both multiselects at their
\* default, every option.
Start(t, cols) ==
    /\ df = t
    /\ columns = cols
    /\ pc = "sidebar_platforms"
    /\ err = "none"
    /\ selected_platforms = PlatformsOf(t)
    /\ selected_models = ModelsOf(t)
    /\ platform_filtered_df = {}
    /\ filtered_df = {}
    /\ tab1 = Pending /\ tab2 = Pending /\ tab3 = Pending
    /\ tab4 = Pending /\ tab5 = Pending /\ tab6 = Pending

\* Lines 70-75: with an 'AI Platform' column the user's choice among its
\* values filters the rows; without one there is no widget and no filter.
SidebarPlatforms ==
    /\ pc = "sidebar_platforms"
    /\ IF PlatformColumn \in columns
       THEN \E chosen \in SUBSET PlatformsOf(df) :
               /\ selected_platforms' = chosen
               /\ platform_filtered_df' = {r \in df : r.Platform \in chosen}
       ELSE /\ platform_filtered_df' = df
            /\ UNCHANGED selected_platforms
    /\ pc' = "sidebar_models"
    /\ UNCHANGED <<df, columns, err, selected_models, filtered_df,
                   tab1, tab2, tab3, tab4, tab5, tab6>>

\* FilterModels with the model filter left out.
FilterModelsNone(rows, chosen) == rows

\* Line 81
FilterModels(rows, chosen) == {r \in rows : r.Model \in chosen}

\* Lines 77-81: the user's choice among the models of the rows left, and
\* the rows of the chosen models.
SidebarModels ==
    /\ pc = "sidebar_models"
    /\ \E chosen \in SUBSET ModelsOf(platform_filtered_df) :
          /\ selected_models' = chosen
          /\ filtered_df' = FilterModels(platform_filtered_df, chosen)
    /\ pc' = "tab1"
    /\ UNCHANGED <<df, columns, err, selected_platforms,
                   platform_filtered_df, tab1, tab2, tab3, tab4, tab5, tab6>>

\* An uncaught exception ends the run: Streamlit shows it and runs nothing
\* after it.
Raise(e) ==
    /\ pc' = "error"
    /\ err' = e

\* Lines 148-231.  groupby(['Model', 'AI Platform']) raises KeyError on a
\* table without an 'AI Platform' column.
Tab1 ==
    /\ pc = "tab1"
    /\ IF PlatformColumn \in columns
       THEN /\ \E display_df \in DisplayDf1(PercentageCorrect(filtered_df)) :
                  tab1' = [state |-> "rendered",
                           percentage_correct |->
                               PercentageCorrect(filtered_df),
                           display_df |-> display_df]
            /\ pc' = "tab2"
            /\ UNCHANGED err
       ELSE /\ Raise("KeyError")
            /\ UNCHANGED tab1
    /\ UNCHANGED <<df, columns, selected_platforms, selected_models,
                   platform_filtered_df, filtered_df,
                   tab2, tab3, tab4, tab5, tab6>>

\* Lines 232-336
Tab2 ==
    /\ pc = "tab2"
    /\ \E correct_counts \in CorrectCounts(filtered_df) :
          tab2' = [state |-> "rendered",
                   correct_counts |-> correct_counts,
                   display_df |-> DisplayDf2(correct_counts, filtered_df)]
    /\ pc' = "tab3"
    /\ UNCHANGED <<df, columns, err, selected_platforms, selected_models,
                   platform_filtered_df, filtered_df,
                   tab1, tab3, tab4, tab5, tab6>>

\* Line 348
SortOptions == {"Total Correct Answers", "Legal Category"}

\* Lines 352-367: the sort of the model axis.  By total it is left to the
\* chart (sum of Count, descending); by category it is the list of models
\* computed here.  The value is the set of the sort fields the run can
\* come to.
SortField(category_counts, sort_by, selected_category) ==
    IF sort_by = "Total Correct Answers"
    THEN {[kind |-> "EncodingSortField", sorted_models |-> << >>]}
    ELSE {[kind |-> "list", sorted_models |-> sorted_models] :
             sorted_models \in SortedModels(category_counts,
                                            selected_category)}

\* Lines 337-440
Tab3 ==
    /\ pc = "tab3"
    /\ LET category_counts == CategoryCounts(filtered_df) IN
       \E sort_by \in SortOptions :
       \E selected_category \in
              IF sort_by = "Total Correct Answers" THEN {"None"}
              ELSE SelectboxChoices(Categories(category_counts)) :
       \E sort_field \in SortField(category_counts, sort_by,
                                   selected_category) :
       \E pivot_table \in PivotTable(category_counts) :
          tab3' = [state |-> "rendered",
                   category_counts |-> category_counts,
                   sort_by |-> sort_by,
                   selected_category |-> selected_category,
                   sort_field |-> sort_field,
                   pivot_table |-> pivot_table]
    /\ pc' = "tab4"
    /\ UNCHANGED <<df, columns, err, selected_platforms, selected_models,
                   platform_filtered_df, filtered_df,
                   tab1, tab2, tab4, tab5, tab6>>

\* CostAvailable with the check of line 443 left out.
CostAvailableAlways(cols) == TRUE

\* Line 443
CostAvailable(cols) == CostColumn \in cols

\* Line 510
DurationAvailable(cols) == DurationColumn \in cols

\* Lines 441-507.  The agg of line 445 raises KeyError on a table that has
\* no total_cost column; line 443 keeps the run from reaching it.
Tab4 ==
    /\ pc = "tab4"
    /\ IF ~CostAvailable(columns)
       THEN /\ tab4' = [state |-> "unavailable"]
            /\ pc' = "tab5"
            /\ UNCHANGED err
       ELSE IF CostColumn \notin columns
       THEN /\ Raise("KeyError")
            /\ UNCHANGED tab4
       ELSE /\ LET merged_data ==
                        MergedData(CostSummary(filtered_df), filtered_df)
                   display_df == EfficiencyDisplayDf(merged_data)
               IN  \E dataframe \in EfficiencyTable(display_df) :
                       tab4' = [state |-> "rendered",
                                merged_data |-> merged_data,
                                display_df |-> display_df,
                                dataframe |-> dataframe]
            /\ pc' = "tab5"
            /\ UNCHANGED err
    /\ UNCHANGED <<df, columns, selected_platforms, selected_models,
                   platform_filtered_df, filtered_df,
                   tab1, tab2, tab3, tab5, tab6>>

\* Lines 508-571: the block is nested in "with tab4:" but not in its if,
\* so it runs whether or not there is a cost column.  The agg of line 512
\* raises KeyError on a table that has no duration column.
Tab5 ==
    /\ pc = "tab5"
    /\ IF ~DurationAvailable(columns)
       THEN /\ tab5' = [state |-> "unavailable"]
            /\ pc' = "tab6"
            /\ UNCHANGED err
       ELSE IF DurationColumn \notin columns
       THEN /\ Raise("KeyError")
            /\ UNCHANGED tab5
       ELSE /\ LET merged_data ==
                        MergedData(TimeSummary(filtered_df), filtered_df)
                   display_df == EfficiencyDisplayDf(merged_data)
               IN  \E dataframe \in EfficiencyTable(display_df) :
                       tab5' = [state |-> "rendered",
                                merged_data |-> merged_data,
                                display_df |-> display_df,
                                dataframe |-> dataframe]
            /\ pc' = "tab6"
            /\ UNCHANGED err
    /\ UNCHANGED <<df, columns, selected_platforms, selected_models,
                   platform_filtered_df, filtered_df,
                   tab1, tab2, tab3, tab4, tab6>>

\* AnyModelSelected with the guard of line 574 left out.
AnyModelSelectedAlways(chosen) == TRUE

\* Line 574
AnyModelSelected(chosen) == Cardinality(chosen) > 0

\* Lines 572-632
Tab6 ==
    /\ pc = "tab6"
    /\ IF AnyModelSelected(selected_models)
       THEN \E merged_table \in MergedTable(filtered_df) :
            \E hardest \in Hardest(merged_table) :
               tab6' = [state |-> "rendered",
                        question_summary |-> QuestionSummary(filtered_df),
                        merged_table |-> merged_table,
                        easiest |-> Easiest(merged_table),
                        hardest |-> hardest]
       ELSE tab6' = [state |-> "notice"]
    /\ pc' = "done"
    /\ UNCHANGED <<df, columns, err, selected_platforms, selected_models,
                   platform_filtered_df, filtered_df,
                   tab1, tab2, tab3, tab4, tab5>>

\* A widget interaction, after the run ended or stopped on an exception,
\* runs the script again from the top on the same cached table.
Rerun ==
    /\ pc \in {"done", "error"}
    /\ pc' = "sidebar_platforms"
    /\ err' = "none"
    /\ selected_platforms' = PlatformsOf(df)
    /\ selected_models' = ModelsOf(df)
    /\ platform_filtered_df' = {}
    /\ filtered_df' = {}
    /\ tab1' = Pending /\ tab2' = Pending /\ tab3' = Pending
    /\ tab4' = Pending /\ tab5' = Pending /\ tab6' = Pending
    /\ UNCHANGED <<df, columns>>

\* Lines 70-73 on a run in which the user leaves the platform multiselect
\* alone: it returns its default, every platform.
DefaultPlatforms ==
    /\ pc = "sidebar_platforms"
    /\ IF PlatformColumn \in columns
       THEN /\ selected_platforms' = PlatformsOf(df)
            /\ platform_filtered_df' =
                   {r \in df : r.Platform \in PlatformsOf(df)}
       ELSE /\ platform_filtered_df' = df
            /\ UNCHANGED selected_platforms
    /\ pc' = "sidebar_models"
    /\ UNCHANGED <<df, columns, err, selected_models, filtered_df,
                   tab1, tab2, tab3, tab4, tab5, tab6>>

\* Lines 77-81 on a run in which the user leaves the model multiselect
\* alone: it returns its default, every model of the rows left.
DefaultModels ==
    /\ pc = "sidebar_models"
    /\ selected_models' = ModelsOf(platform_filtered_df)
    /\ filtered_df' = FilterModels(platform_filtered_df,
                                   ModelsOf(platform_filtered_df))
    /\ pc' = "tab1"
    /\ UNCHANGED <<df, columns, err, selected_platforms,
                   platform_filtered_df, tab1, tab2, tab3, tab4, tab5, tab6>>

Next ==
    \/ SidebarPlatforms
    \/ SidebarModels
    \/ Tab1
    \/ Tab2
    \/ Tab3
    \/ Tab4
    \/ Tab5
    \/ Tab6
    \/ Rerun

\* The runs in which the sidebar is left at its defaults, as on the first
\* load of the page.
NextDefault ==
    \/ DefaultPlatforms
    \/ DefaultModels
    \/ Tab1
    \/ Tab2
    \/ Tab3
    \/ Tab4
    \/ Tab5
    \/ Tab6
    \/ Rerun

-----------------------------------------------------------------------------
(* The tables the script is run on.                                        *)

AllColumns == {"Question Number", "Law Category", PlatformColumn, "Model",
               "Correct", CostColumn, DurationColumn}

\* The tables of at most MaxRows rows drawn from the rows of U.
Tables(U) == {t \in SUBSET U : Cardinality(t) <= MaxRows}

\* The platform of each model identifier of the model: a stable pair, as
\* in the shipped table.
PlatformOf(m) ==
    CASE m = 1 -> "Claude"
      [] m = 2 -> "Gemini"
      [] m = 3 -> Human
      [] OTHER -> "ChatGPT"

\* Attempts of three models, one of them the human pool, at two questions,
\* each question with one category label.
CoreRows ==
    {Row(q, m, PlatformOf(m), IF q = 1 THEN CriminalCanonical ELSE Torts,
         Some(ok), Some(q + m), Some(2 * m)) :
        q \in 1..2, m \in 1..3, ok \in BOOLEAN}

Init == \E t \in Tables(CoreRows) : Start(t, AllColumns)

Spec == Init /\ [][Next]_vars

\* Correct attempts of the two AI models at question 1, labelled with the
\* alias or with the canonical criminal-law category, and at question 2,
\* labelled Torts; a correct attempt of the human pool and an incorrect
\* attempt of the first model at question 2.
CategoryRows ==
    {Row(qc[1], m, PlatformOf(m), qc[2], Some(TRUE), Some(1), Some(1)) :
        m \in 1..2,
        qc \in {<<1, CriminalAlias>>, <<1, CriminalCanonical>>, <<2, Torts>>}}
    \cup {Row(2, 3, PlatformOf(3), Torts, Some(TRUE), Some(1), Some(1)),
          Row(2, 1, PlatformOf(1), Torts, Some(FALSE), Some(1), Some(1))}

InitCategories == \E t \in Tables(CategoryRows) : Start(t, AllColumns)

\* The runs on tables whose category labels vary within a question and
\* include the alias.
SpecCategories == InitCategories /\ [][Next]_vars

\* The header sets of a table with and without the two optional columns.
OptionalColumnSets ==
    {AllColumns \ drop : drop \in SUBSET {CostColumn, DurationColumn}}

\* A table read from a file without some optional column has no cell of it.
WithColumns(t, cols) ==
    {[r EXCEPT !.total_cost = IF CostColumn \in cols THEN @ ELSE NaN,
               !.duration = IF DurationColumn \in cols THEN @ ELSE NaN] :
        r \in t}

\* Attempts of a Claude model and of the human pool at two questions.
OptionalRows ==
    {Row(q, m, PlatformOf(m), Torts, Some(ok), Some(q + m), Some(2 * m)) :
        q \in 1..2, m \in {1, 3}, ok \in BOOLEAN}

InitOptionalColumns ==
    \E t \in Tables(OptionalRows), cols \in OptionalColumnSets :
        Start(WithColumns(t, cols), cols)

\* The runs on tables with or without a total_cost and a duration column.
SpecOptionalColumns == InitOptionalColumns /\ [][Next]_vars

\* Attempts of two models at two questions whose Correct cell is True,
\* False or empty.
OutcomeRows ==
    {Row(q, m, PlatformOf(m), Torts, ok, Some(1), Some(1)) :
        q \in 1..2, m \in 1..2, ok \in {Some(TRUE), Some(FALSE), NaN}}

InitOutcomes == \E t \in Tables(OutcomeRows) : Start(t, AllColumns)

\* The runs on tables whose Correct column may hold an empty cell.
SpecOutcomes == InitOutcomes /\ [][Next]_vars

\* Attempts of a Claude model and of the human pool at two questions, the
\* first answered correctly and the second not, whose total_cost cell holds
\* a cost or is empty.
CostRows ==
    {Row(q, m, PlatformOf(m), Torts, Some(q = 1), cost, Some(1)) :
        q \in 1..2, m \in {1, 3}, cost \in {NaN, Some(1), Some(3)}}

InitCosts == \E t \in Tables(CostRows) : Start(t, AllColumns)

\* The runs on tables with a total_cost column some of whose cells may be
\* empty.
SpecCosts == InitCosts /\ [][Next]_vars

\* The two names under which a table may carry its platform column.
PlatformHeaders == {PlatformColumn, "Platform"}

\* The header names of a table whose platform column is named h.
ColumnsNamed(h) == (AllColumns \ {PlatformColumn}) \cup {h}

InitHeaders ==
    \E t \in Tables(OptionalRows), h \in PlatformHeaders :
        Start(t, ColumnsNamed(h))

\* The runs on tables whose platform column has either name.
SpecHeaders == InitHeaders /\ [][Next]_vars

\* The models of a table with one model more than numpy's quicksort sorts
\* by insertion.
ManyModels == 4..(SMALL_QUICKSORT + 5)

\* The place of a model among them.
Place(m) == m - 3

\* Each of the many models answered as many questions correctly as its
\* place says, the first ones, and failed the next one: no two models have
\* the same number of correct answers or the same percentage, and no two
\* questions the same percentage.
ManyRows ==
    UNION {{Row(q, m, PlatformOf(m), Torts, Some(q <= Place(m)), Some(1),
                Some(1)) : q \in 1..(Place(m) + 1)} : m \in ManyModels}

\* A second failure of the second model and one of the sixth: with it the
\* second model has the percentage of the first, 2 of 4 and 1 of 2, and
\* the sixth that of the third, 6 of 8 and 3 of 4.
FailedRows ==
    {Row(Place(m) + 2, m, PlatformOf(m), Torts, Some(FALSE), Some(1),
         Some(1)) : m \in {5, 9}}

InitManyModels ==
    \E failed \in SUBSET FailedRows : Start(ManyRows \cup failed, AllColumns)

\* The first-load runs on tables of more models than the quicksort sorts by
\* insertion.
SpecManyModels == InitManyModels /\ [][NextDefault]_vars

-----------------------------------------------------------------------------
(* Properties.                                                             *)

PastSidebar == pc \notin {"sidebar_platforms", "sidebar_models"}

\* a <= b on two fractions <<numerator, denominator>>.
FracLe(a, b) == a[1] * b[2] <= b[1] * a[2]

KeysOf(s) == {<<s[i].Model, s[i].Platform>> : i \in DOMAIN s}

NonHumanPairs(rows) == {k \in Pairs(rows) : k[2] # Human}

\* C1: once the sidebar has run, the rows handed to the tabs are exactly
\* the rows of the table whose platform is among the selected platforms and
\* whose model is among the selected models.
C1_RowFilter ==
    PastSidebar =>
        filtered_df = {r \in df : /\ r.Platform \in selected_platforms
                                  /\ r.Model \in selected_models}

\* A finished run in which the platform filter dropped a row, the model
\* filter dropped a row that passed the platform filter, and a row is left.
C1_Witness ==
    /\ pc = "done"
    /\ filtered_df # {}
    /\ \E r \in df : r.Platform \notin selected_platforms
    /\ \E r \in df : /\ r.Platform \in selected_platforms
                     /\ r.Model \notin selected_models

\* C2: the accuracy output has a row for a non-human (model, platform)
\* pair exactly if the pair has a row in the working set, and the row
\* carries the pair's number of rows, its number of correct rows (possibly
\* 0) and 100 * correct / total.
C2_AccuracyRows ==
    tab1.state = "rendered" =>
        LET out == tab1.percentage_correct IN
        /\ KeysOf(out) = NonHumanPairs(filtered_df)
        /\ \A i \in DOMAIN out :
              LET g == RowsOf(filtered_df, out[i].Model, out[i].Platform) IN
              /\ out[i].Total = Cardinality(g)
              /\ out[i].Correct = Cardinality(CorrectOnly(g))
              /\ out[i].Percentage =
                     Percent(Cardinality(CorrectOnly(g)), Cardinality(g))

\* The text of a formatted percentage read back as a number of tenths:
\* its digits, the point and the percent sign skipped.
RECURSIVE TenthsOfText(_)
TenthsOfText(text) ==
    IF text = << >> THEN 0
    ELSE LET c    == text[Len(text)]
             init == TenthsOfText(SubSeq(text, 1, Len(text) - 1))
         IN  IF c \in 48..57 THEN 10 * init + (c - 48) ELSE init

\* C3: in every row of the accuracy output and of the raw-count table the
\* group has at least one row, correct <= total, and the percentage lies
\* between 0 and 100.
C3_PercentageBounds ==
    /\ tab1.state = "rendered" =>
          \A i \in DOMAIN tab1.percentage_correct :
              LET o == tab1.percentage_correct[i] IN
              /\ o.Total >= 1
              /\ o.Correct <= o.Total
              /\ FracLe(<<0, 1>>, o.Percentage)
              /\ FracLe(o.Percentage, <<100, 1>>)
    /\ tab2.state = "rendered" =>
          \A i \in DOMAIN tab2.display_df :
              LET o == tab2.display_df[i] IN
              /\ o.TotalQuestions >= 1
              /\ o.Correct <= o.TotalQuestions
              /\ TenthsOfText(o.PercentageCorrect) \in 0..1000

\* Both tables hold a pair that answered some but not all of its rows
\* correctly.
C3_Witness ==
    /\ tab2.state = "rendered"
    /\ \E i \in DOMAIN tab1.percentage_correct :
          /\ tab1.percentage_correct[i].Correct >= 1
          /\ tab1.percentage_correct[i].Correct
                 < tab1.percentage_correct[i].Total
    /\ \E i \in DOMAIN tab2.display_df :
          tab2.display_df[i].Correct < tab2.display_df[i].TotalQuestions

\* C4: with no model selected (no platform selected leaves no model to
\* select) the working set is empty, the run raises nothing, and each tab
\* that has run shows an empty output, tab 6 its notice, whichever sort
\* mode tab 3 is in.
C4_EmptySelection ==
    /\ (PastSidebar /\ selected_platforms = {}) => selected_models = {}
    /\ (PastSidebar /\ selected_models = {}) =>
          /\ filtered_df = {}
          /\ pc # "error" /\ err = "none"
          /\ tab1.state = "rendered" =>
                tab1.percentage_correct = << >> /\ tab1.display_df = << >>
          /\ tab2.state = "rendered" =>
                tab2.correct_counts = << >> /\ tab2.display_df = << >>
          /\ tab3.state = "rendered" =>
                /\ tab3.category_counts = << >>
                /\ tab3.pivot_table = << >>
                /\ tab3.sort_field.sorted_models = << >>
          /\ tab4.state = "rendered" => tab4.merged_data = << >>
          /\ tab5.state = "rendered" => tab5.merged_data = << >>
          /\ tab6.state # "rendered"
          /\ pc = "done" =>
                /\ tab1.state = "rendered" /\ tab2.state = "rendered"
                /\ tab3.state = "rendered" /\ tab4.state = "rendered"
                /\ tab5.state = "rendered" /\ tab6.state = "notice"

\* A finished run on a table with rows, one platform selected and no model
\* selected, tab 3 sorting by legal category with nothing to select.
C4_Witness ==
    /\ pc = "done"
    /\ df # {}
    /\ selected_platforms # {}
    /\ selected_models = {}
    /\ tab3.sort_by = "Legal Category"
    /\ tab3.selected_category = "None"
    /\ tab6.state = "notice"

QuestionsOf(rows) == {r.Question : r \in rows}

QuestionRows(rows, q) == {r \in rows : r.Question = q}

\* t tenths is a tenth nearest to 100 * n / d.
NearestTenth(t, n, d) == 2 * (t * d - 1000 * n) <= d /\ 2 * (1000 * n - t * d) <= d

\* C6, as stated: the per-question summary has one row per question of
\* the working set, with total_correct the number of its correct rows,
\* total_models the number of its distinct models, and percentage_correct
\* equal to 100 * total_correct / total_models.
C6_PerQuestionExact ==
    tab6.state = "rendered" =>
        LET out == tab6.question_summary IN
        /\ {out[i].Question : i \in DOMAIN out} = QuestionsOf(filtered_df)
        /\ \A i \in DOMAIN out :
              LET g == QuestionRows(filtered_df, out[i].Question) IN
              /\ out[i].total_correct = Some(Cardinality(CorrectOnly(g)))
              /\ out[i].total_models = Cardinality(ModelsOf(g))
              /\ out[i].PercentageCorrect[1] * out[i].total_models
                     = 1000 * out[i].total_correct[1]

\* C6, amended: as C6_PerQuestionExact, with percentage_correct the value
\* 100 * total_correct / total_models rounded to one decimal place; and
\* the main table lists the questions of the working set and no other,
\* each with the text of its rounded percentage.
C6_PerQuestionRounded ==
    tab6.state = "rendered" =>
        LET out == tab6.question_summary
            mt  == tab6.merged_table
        IN
        /\ {out[i].Question : i \in DOMAIN out} = QuestionsOf(filtered_df)
        /\ \A i, j \in DOMAIN out : out[i].Question = out[j].Question => i = j
        /\ \A i \in DOMAIN out :
              LET g == QuestionRows(filtered_df, out[i].Question) IN
              /\ out[i].total_correct = Some(Cardinality(CorrectOnly(g)))
              /\ out[i].total_models = Cardinality(ModelsOf(g))
              /\ Len(out[i].PercentageCorrect) = 1
              /\ NearestTenth(out[i].PercentageCorrect[1],
                              Cardinality(CorrectOnly(g)),
                              Cardinality(ModelsOf(g)))
        /\ {mt[i].Question : i \in DOMAIN mt} = QuestionsOf(filtered_df)
        /\ \A i \in DOMAIN mt : \E j \in DOMAIN out :
              /\ out[j].Question = mt[i].Question
              /\ mt[i].PercentageCorrect = FormatPct(out[j].PercentageCorrect)

\* A question attempted by three models, one of them correct: 33.3.
C6_Witness ==
    /\ tab6.state = "rendered"
    /\ \E i \in DOMAIN tab6.question_summary :
          /\ tab6.question_summary[i].total_models = 3
          /\ tab6.question_summary[i].total_correct = Some(1)
          /\ tab6.question_summary[i].PercentageCorrect = Some(333)

IsPermutation(a, b) ==
    /\ Len(a) = Len(b)
    /\ \E f \in [DOMAIN a -> DOMAIN b] :
          /\ \A i, j \in DOMAIN a : f[i] = f[j] => i = j
          /\ \A i \in DOMAIN a : a[i] = b[f[i]]

\* C8: the main per-question table is sorted by percentage descending,
\* the easiest questions are its first five rows, and the hardest
\* questions are its last five rows ordered so that their percentages, as
\* numbers, do not decrease.
C8_EasiestHardest ==
    tab6.state = "rendered" =>
        LET mt == tab6.merged_table
            value(s, i) == TenthsOfText(s[i].PercentageCorrect)
        IN
        /\ \A i, j \in DOMAIN mt : i < j => value(mt, i) >= value(mt, j)
        /\ tab6.easiest = Shown(SubSeq(mt, 1, Min(HeadRows, Len(mt))))
        /\ IsPermutation(tab6.hardest,
               Shown(SubSeq(mt, Len(mt) - Min(TailRows, Len(mt)) + 1, Len(mt))))
        /\ \A i, j \in DOMAIN tab6.hardest :
              i < j => value(tab6.hardest, i) <= value(tab6.hardest, j)

\* The labels counted under the category c of the output.
LabelsUnder(c) ==
    IF c = CriminalCanonical THEN {CriminalAlias, CriminalCanonical} ELSE {c}

\* The number of correct rows of the pair k whose label is counted under c.
CorrectUnder(rows, k, c) ==
    Cardinality({r \in rows : /\ r.Model = k[1] /\ r.Platform = k[2]
                              /\ r.Correct = Some(TRUE)
                              /\ r.LawCategory \in LabelsUnder(c)})

OutputCategories == {CriminalCanonical, Torts}

\* C9: the alias is no category of the per-category counts or of the pivot
\* table; the correct rows labelled with it are counted under 'Criminal Law
\* and Procedure' together with the rows so labelled, and the rows of any
\* other label are counted under that label.
C9_CategoryNormalization ==
    tab3.state = "rendered" =>
        LET cc == tab3.category_counts
            pv == tab3.pivot_table
        IN
        /\ \A i \in DOMAIN cc : cc[i].LawCategory \in OutputCategories
        /\ \A k \in Pairs(filtered_df), c \in OutputCategories :
              LET n == CorrectUnder(filtered_df, k, c)
                  hits == {i \in DOMAIN cc :
                              /\ cc[i].Model = k[1] /\ cc[i].Platform = k[2]
                              /\ cc[i].LawCategory = c}
              IN  /\ n = 0 => hits = {}
                  /\ n > 0 => /\ Cardinality(hits) = 1
                              /\ \A i \in hits : cc[i].Count = n
        /\ \A i \in DOMAIN pv :
              /\ DOMAIN pv[i].Counts \subseteq OutputCategories
              /\ \A c \in DOMAIN pv[i].Counts :
                    pv[i].Counts[c] =
                        CorrectUnder(filtered_df,
                                     <<pv[i].Model, pv[i].Platform>>, c)

\* A pair with a correct row under the alias and one under the canonical
\* label, counted as 2, beside a count under Torts.
C9_Witness ==
    /\ tab3.state = "rendered"
    /\ \E r1, r2 \in filtered_df :
          /\ r1.Model = r2.Model
          /\ r1.LawCategory = CriminalAlias /\ r1.Correct = Some(TRUE)
          /\ r2.LawCategory = CriminalCanonical /\ r2.Correct = Some(TRUE)
    /\ \E i \in DOMAIN tab3.category_counts :
          /\ tab3.category_counts[i].LawCategory = CriminalCanonical
          /\ tab3.category_counts[i].Count = 2
    /\ \E i \in DOMAIN tab3.category_counts :
          tab3.category_counts[i].LawCategory = Torts

\* C10, as stated: the pivot table and the raw-count table hold the same
\* (model, platform) pairs, and the Total of each pivot row is the Correct
\* count of its pair in the raw-count table.
C10_TotalsAgree ==
    tab3.state = "rendered" =>
        LET pv == tab3.pivot_table
            rc == tab2.correct_counts
        IN
        /\ KeysOf(pv) = KeysOf(rc)
        /\ \A i \in DOMAIN pv : \A j \in DOMAIN rc :
              SameKey(pv[i], rc[j]) => pv[i].Total = rc[j].Correct

\* C10, amended: the non-human pairs of the pivot table are the pairs of
\* the raw-count table, the Total of each such pivot row, the sum of its
\* category counts, is the Correct count of its pair; a pair of the Human
\* platform with a correct row is in the pivot table, with its correct
\* rows as Total, and not in the raw-count table.
C10_TotalsAgreeNonHuman ==
    tab3.state = "rendered" =>
        LET pv == tab3.pivot_table
            rc == tab2.correct_counts
        IN
        /\ {k \in KeysOf(pv) : k[2] # Human} = KeysOf(rc)
        /\ \A i \in DOMAIN pv :
              /\ pv[i].Total = SumOver(DOMAIN pv[i].Counts, pv[i].Counts)
              /\ \A j \in DOMAIN rc :
                    SameKey(pv[i], rc[j]) => pv[i].Total = rc[j].Correct
        /\ \A k \in Pairs(CorrectOnly(filtered_df)) :
              k[2] = Human =>
                  /\ k \notin KeysOf(rc)
                  /\ \E i \in DOMAIN pv :
                        /\ <<pv[i].Model, pv[i].Platform>> = k
                        /\ pv[i].Total =
                               Cardinality(CorrectOnly(
                                   RowsOf(filtered_df, k[1], k[2])))

\* A non-human pair whose Total of 2 sums two categories and is its raw
\* count, beside a Human pair that only the pivot table holds, in a
\* working set with an incorrect row.
C10_Witness ==
    /\ tab3.state = "rendered"
    /\ \E i \in DOMAIN tab3.pivot_table :
          LET o == tab3.pivot_table[i] IN
          /\ o.Platform # Human
          /\ o.Total = 2
          /\ \A c \in DOMAIN o.Counts : o.Counts[c] < 2
          /\ \E j \in DOMAIN tab2.correct_counts :
                /\ SameKey(o, tab2.correct_counts[j])
                /\ tab2.correct_counts[j].Correct = 2
    /\ \E i \in DOMAIN tab3.pivot_table :
          tab3.pivot_table[i].Platform = Human

\* The rows, with a value in every cell of the optional columns.
Refilled(rows) ==
    {[r EXCEPT !.total_cost = Some(1), !.duration = Some(1)] : r \in rows}

\* C5: a table without a total_cost column gets 'unavailable' from tab 4
\* and one without a duration column gets it from tab 5; the run raises
\* nothing; and every other tab runs and shows what it shows for the same
\* rows with the column present (one of the tables its sort can leave for
\* them).
C5_MissingOptionalColumn ==
    /\ pc # "error" /\ err = "none"
    /\ tab4.state # "pending" =>
          (tab4.state = "unavailable" <=> CostColumn \notin columns)
    /\ tab5.state # "pending" =>
          (tab5.state = "unavailable" <=> DurationColumn \notin columns)
    /\ pc = "done" =>
          LET rows == Refilled(filtered_df) IN
          /\ tab1.state = "rendered"
          /\ tab1.percentage_correct = PercentageCorrect(rows)
          /\ tab1.display_df \in DisplayDf1(PercentageCorrect(rows))
          /\ tab2.state = "rendered"
          /\ tab2.correct_counts \in CorrectCounts(rows)
          /\ tab2.display_df = DisplayDf2(tab2.correct_counts, rows)
          /\ tab3.state = "rendered"
          /\ tab3.category_counts = CategoryCounts(rows)
          /\ tab3.pivot_table \in PivotTable(CategoryCounts(rows))
          /\ tab6.state = IF selected_models = {} THEN "notice" ELSE "rendered"
          /\ tab6.state = "rendered" =>
                /\ tab6.merged_table \in MergedTable(rows)
                /\ tab6.easiest = Easiest(tab6.merged_table)
                /\ tab6.hardest \in Hardest(tab6.merged_table)
          /\ (CostColumn \notin columns /\ DurationColumn \in columns) =>
                LET with == {[r EXCEPT !.total_cost = Some(1)] :
                                r \in filtered_df}
                IN  tab5.merged_data = MergedData(TimeSummary(with), with)
          /\ (DurationColumn \notin columns /\ CostColumn \in columns) =>
                LET with == {[r EXCEPT !.duration = Some(1)] :
                                r \in filtered_df}
                IN  tab4.merged_data = MergedData(CostSummary(with), with)

\* A finished run on a table without a total_cost column in which tab 1,
\* tab 5 and tab 6 show rows.
C5_Witness ==
    /\ pc = "done"
    /\ CostColumn \notin columns /\ DurationColumn \in columns
    /\ tab4.state = "unavailable"
    /\ tab1.percentage_correct # << >>
    /\ tab5.state = "rendered" /\ tab5.merged_data # << >>
    /\ tab6.state = "rendered"

\* The Correct cells of the rows behind the cell of model m in the row o
\* of the per-question table.
CellsBehind(rows, o, m) ==
    {r.Correct : r \in {r \in rows : /\ r.Question = o.Question
                                     /\ r.LawCategory = o.LawCategory
                                     /\ r.Model = m}}

\* C7: in the per-question pivot the cell of an attempt is 'Correct' for
\* True and 'Incorrect' for False, and a cell behind which there is an
\* outcome that is no boolean is shown only by a run that ended in a
\* reported data-quality error.
C7_NonBooleanOutcome ==
    tab6.state = "rendered" =>
        \A i \in DOMAIN tab6.merged_table :
        \A m \in DOMAIN tab6.merged_table[i].Outcome :
            LET o == tab6.merged_table[i]
                cells == CellsBehind(filtered_df, o, m)
            IN  /\ cells = {Some(TRUE)} => o.Outcome[m] = "Correct"
                /\ cells = {Some(FALSE)} => o.Outcome[m] = "Incorrect"
                /\ (\E v \in cells : ~IsBool(v)) => err = "DataQualityError"

-----------------------------------------------------------------------------

\* C11: the rows of the accuracy table of tab1 are in descending order of
\* the percentage, and of two rows with the same percentage the one with
\* the smaller model identifier comes first.
C11_DisplayOrder ==
    tab1.state = "rendered" =>
        \A i, j \in DOMAIN tab1.display_df :
            i < j =>
                LET a  == tab1.display_df[i]
                    b  == tab1.display_df[j]
                    pa == Percent(a.Correct, a.Total)
                    pb == Percent(b.Correct, b.Total)
                IN  /\ FracLe(pb, pa)
                    /\ pa = pb => a.Model < b.Model

-----------------------------------------------------------------------------

\* The rows of a pair that hold a cost, and the sum of their costs.
Priced(rows, k) ==
    {r \in RowsOf(rows, k[1], k[2]) : ~IsNaN(r.total_cost)}

CostOf(rows, k) ==
    SumOver(Priced(rows, k), [r \in Priced(rows, k) |-> r.total_cost[1]])

-----------------------------------------------------------------------------

\* C13: on a table whose platform column is named 'AI Platform' or
\* 'Platform' the run raises no error, the rows handed to the tabs are
\* those of the selected platforms and models, and a run that got past a
\* tab has its output, the same under either name: tab1 and tab2 show the
\* tables computed from the filtered rows.
C13_EitherHeader ==
    /\ err = "none"
    /\ pc # "error"
    /\ PastSidebar =>
           filtered_df = {r \in df : /\ r.Platform \in selected_platforms
                                     /\ r.Model \in selected_models}
    /\ pc \in {"tab2", "tab3", "tab4", "tab5", "tab6", "done"} =>
           /\ tab1.state = "rendered"
           /\ tab1.display_df \in DisplayDf1(PercentageCorrect(filtered_df))
    /\ pc \in {"tab3", "tab4", "tab5", "tab6", "done"} =>
           /\ tab2.state = "rendered"
           /\ tab2.correct_counts \in CorrectCounts(filtered_df)

-----------------------------------------------------------------------------

\* The number of correct rows of model m whose category, the alias read as
\* the canonical name, is c.
CorrectIn(rows, m, c) ==
    Cardinality({r \in rows : /\ r.Model = m
                              /\ r.Correct = Some(TRUE)
                              /\ r.LawCategory \in LabelsUnder(c)})

\* The models that have a row in the category counts.
CountedModels == {tab3.category_counts[i].Model :
                     i \in DOMAIN tab3.category_counts}

\* C14 as stated: sorting by a selected category, the list of models handed
\* to the chart holds every model of the category counts exactly once, in
\* descending order of the model's correct count in the category, a model
\* with no correct answer in it counting as 0.
C14_ListsEveryModel ==
    (tab3.state = "rendered" /\ tab3.sort_by = "Legal Category") =>
        LET list == tab3.sort_field.sorted_models
            c    == tab3.selected_category
        IN  /\ Range(list) = CountedModels
            /\ Len(list) = Cardinality(CountedModels)
            /\ \A i, j \in DOMAIN list :
                   i < j => CorrectIn(filtered_df, list[i], c)
                               >= CorrectIn(filtered_df, list[j], c)

\* C14, amended: sorting by a selected category, the list of models handed
\* to the chart holds exactly the models with a correct answer in the
\* category, each once, in descending order of the model's correct count
\* in it; a model with none is not in the list.
C14_ListsModelsOfCategory ==
    (tab3.state = "rendered" /\ tab3.sort_by = "Legal Category") =>
        LET list == tab3.sort_field.sorted_models
            c    == tab3.selected_category
            in_c == {m \in CountedModels : CorrectIn(filtered_df, m, c) > 0}
        IN  /\ tab3.sort_field.kind = "list"
            /\ Range(list) = in_c
            /\ Len(list) = Cardinality(in_c)
            /\ \A i, j \in DOMAIN list :
                   i < j => CorrectIn(filtered_df, list[i], c)
                               >= CorrectIn(filtered_df, list[j], c)

\* Sorted by the canonical criminal-law category, the list puts a model
\* with two correct answers in it before a model of smaller identifier with
\* one.
C14_Witness ==
    /\ tab3.state = "rendered"
    /\ tab3.sort_by = "Legal Category"
    /\ tab3.selected_category = CriminalCanonical
    /\ Len(tab3.sort_field.sorted_models) = 2
    /\ tab3.sort_field.sorted_models[1] > tab3.sort_field.sorted_models[2]
    /\ CorrectIn(filtered_df, tab3.sort_field.sorted_models[1],
                 CriminalCanonical) = 2
    /\ CorrectIn(filtered_df, tab3.sort_field.sorted_models[2],
                 CriminalCanonical) = 1

-----------------------------------------------------------------------------

\* C15: on a table with a cost and a duration column, the cost table and
\* the time table hold the same non-human pairs as the accuracy table of
\* tab1, and a pair has the same percentage of correct answers in all
\* three.
C15_CrossViewAgreement ==
    (/\ tab1.state = "rendered"
     /\ tab4.state = "rendered"
     /\ tab5.state = "rendered") =>
        LET accuracy == tab1.percentage_correct
            cost     == tab4.merged_data
            time     == tab5.merged_data
        IN  /\ KeysOf(cost) = KeysOf(accuracy)
            /\ KeysOf(time) = KeysOf(accuracy)
            /\ \A i \in DOMAIN accuracy :
                   /\ \A j \in DOMAIN cost :
                          SameKey(accuracy[i], cost[j]) =>
                              cost[j].PercentageCorrect
                                  = accuracy[i].Percentage
                   /\ \A j \in DOMAIN time :
                          SameKey(accuracy[i], time[j]) =>
                              time[j].PercentageCorrect
                                  = accuracy[i].Percentage

-----------------------------------------------------------------------------

\* The number of rows of the table s that are about question q.
RowsAbout(s, q) == Cardinality({i \in DOMAIN s : s[i].Question = q})

\* The rows of every question carry one subject area, under the canonical
\* name or its alias.
OneAreaPerQuestion(rows) ==
    \A q \in QuestionsOf(rows) :
        Cardinality({Normalize(r.LawCategory) : r \in QuestionRows(rows, q)})
            = 1

\* No model has two rows for one question.
OneAttemptPerModel(rows) ==
    \A r1, r2 \in rows :
        (r1.Question = r2.Question /\ r1.Model = r2.Model) => r1 = r2

\* C16: in the per-question table every question of the filtered rows has
\* exactly one row, also when some of its rows are labelled with the alias
\* and others with the canonical category, and no question is listed
\* twice among the easiest or among the hardest questions.
C16_OneRowPerQuestion ==
    (/\ tab6.state = "rendered"
     /\ OneAreaPerQuestion(filtered_df)
     /\ OneAttemptPerModel(filtered_df)) =>
        \A q \in QuestionsOf(filtered_df) :
            /\ RowsAbout(tab6.merged_table, q) = 1
            /\ RowsAbout(tab6.easiest, q) <= 1
            /\ RowsAbout(tab6.hardest, q) <= 1

=============================================================================
